---- MODULE Spec2Model ----
(***************************************************************************)
(* Model of scripts/manage_mcp.py: the supervisor of mcp-proxy services.   *)
(*                                                                         *)
(* Two operating-system processes run the script at the same time: the    *)
(* daemon (run_daemon, the reconciling loop) and one command-line          *)
(* invocation (main).  They share the PID files (the registry), the        *)
(* process table and the TCP ports, and nothing else: the script takes no  *)
(* lock.  Each system call of a handler (a PID-file read or write, a       *)
(* process-table query, a probe of the port, a spawn, a signal) is one     *)
(* step, so the steps of the two callers and of the environment            *)
(* interleave as they can on a real host.                                   *)
(***************************************************************************)
EXTENDS Integers, FiniteSets, Sequences, TLC

\* ------------------------------------------------------------------ bounds
\* Size of the process-identifier space; identifiers are reused.
MaxPid == 2
\* Number of events of the environment in one run.
MaxEnv == 2
\* The same, in runs where the two callers overlap.
MaxEnvConc == 1

\* Longest start command, in characters, whose invocation is constructed.
MaxCmdLen == 4
\* Most entries in the "env" mapping of a server.
MaxEnvLen == 2
\* Last second of the clock where log files are followed.
MaxClock == 2
\* Most stops and most spawns counted for a server whose port is taken.
MaxStops == 2

\* ------------------------------------------------------- program constants
\* load_pid's "no PID file" (None) and is_port_in_use's "not listening" (None).
None == 0
\* is_port_in_use's "listening, owner not identifiable" (conn.pid is None).
UnknownOwner == -1

Names == {"a", "b"}
\* config["servers"], in file order.
Servers == <<"a", "b">>
\* internal_port of each server.
PortOf(n) == IF n = "a" THEN 1 ELSE 2
Ports == {PortOf(n) : n \in Names}
Pids == 1..MaxPid
Callers == {"daemon", "cli"}

VARIABLES
    ptab,        \* process table: pid -> [kind, svc, kid]
    listener,    \* port -> pid listening on it, None, or UnknownOwner
    pidfile,     \* PID_DIR/<name>.pid: name -> pid, or None when there is no file
    enabled,     \* the "enabled" flag of each server in mcp_servers.yaml
    denied,      \* psutil.net_connections raises AccessDenied on this platform
    pc,          \* caller -> position in the script
    stack,       \* caller -> return positions of the calls in progress
    loc,         \* caller -> local variables
    sigForeign,  \* history: a signal was delivered to a process the script never spawned
    envs,        \* events of the environment so far
    heal,        \* observer of recoveries: server -> "off", "idle", "killed", "due"
    bad,         \* servers whose "env" in mcp_servers.yaml is not a mapping
    unparsable,  \* servers whose "start_command" shlex cannot split, or splits to nothing
    build,       \* the construction of one mcp-proxy invocation: inputs and results
    logs,        \* the log directory: [on, now: the clock in seconds, files: <<name, stamp>>]
    rc,          \* observer of exit codes: [on, code: caller -> <<>> or <<the last code>>]
    storm,       \* observer of port conflicts: [on, stops, spawns: server -> count]
    missing      \* server -> the key its entry in mcp_servers.yaml lacks, or "-"

vars == <<ptab, listener, pidfile, enabled, denied, pc, stack, loc, sigForeign, envs, heal, bad, unparsable, build, logs, rc, storm, missing>>

\* ----------------------------------------------------------- process table
\* kid: this mcp-proxy has a live child, the wrapped service it started.
Dead == [kind |-> "dead", svc |-> "-", kid |-> FALSE]
Proxy(n) == [kind |-> "proxy", svc |-> n, kid |-> FALSE]
Foreign == [kind |-> "foreign", svc |-> "-", kid |-> FALSE]

Alive(p) == p \in Pids /\ ptab[p].kind # "dead"

\* Identifiers a psutil.Process object of a caller refers to (stop_server's
\* process).  psutil pins the object to the process's creation time, so a
\* reused identifier is never mistaken for the process the object was made
\* for: an identifier is not reused while an object refers to it.
HandlePcs == {"t_kkill", "t_pterm", "t_pwait"}
HandlesOf(c) == IF pc[c] \in HandlePcs THEN {loc[c].spid} ELSE {}
Handles == UNION {HandlesOf(c) : c \in Callers}
FreePids == {p \in Pids : ~Alive(p) /\ p \notin Handles}


\* The table and the ports after the processes of S exited: their sockets
\* are closed.  An orphaned child is out of the script's sight for good.
Reap(S) == [p \in Pids |-> IF p \in S THEN Dead ELSE ptab[p]]
Release(S) == [q \in Ports |-> IF listener[q] \in S THEN None ELSE listener[q]]

\* ------------------------------------------------------------- environment
\* One more event of the environment.
EnvEvent == envs < MaxEnv /\ envs' = envs + 1 /\ UNCHANGED <<bad, unparsable, build, logs, rc, storm, missing>>

\* The observer, where it is on, notes that the mcp-proxy process p of a
\* server was killed from outside, and that a check of the daemon began since.
Hurt(p) ==
    IF ptab[p].kind = "proxy" /\ heal[ptab[p].svc] # "off"
    THEN [heal EXCEPT ![ptab[p].svc] = "killed"]
    ELSE heal
Ticked == [n \in Names |-> IF heal[n] = "killed" THEN "due" ELSE heal[n]]

\* A process exits on its own or is killed from outside the script.
EnvExit(p) ==
    /\ EnvEvent
    /\ Alive(p)
    /\ ptab' = Reap({p})
    /\ listener' = Release({p})
    /\ heal' = Hurt(p)
    /\ UNCHANGED <<pidfile, enabled, denied, pc, stack, loc, sigForeign>>

\* A process the script did not spawn starts, taking any free identifier.
EnvForeignSpawn(p) ==
    /\ EnvEvent
    /\ p \in FreePids
    /\ ptab' = [ptab EXCEPT ![p] = Foreign]
    /\ UNCHANGED <<listener, pidfile, enabled, denied, pc, stack, loc, sigForeign, heal>>

\* A live process starts listening: mcp-proxy on its --sse-port, a foreign
\* process on any port.
EnvBind(p, q) ==
    /\ EnvEvent
    /\ Alive(p)
    /\ listener[q] = None
    /\ \/ ptab[p].kind = "proxy" /\ q = PortOf(ptab[p].svc)
       \/ ptab[p].kind = "foreign"
    /\ listener' = [listener EXCEPT ![q] = p]
    /\ UNCHANGED <<ptab, pidfile, enabled, denied, pc, stack, loc, sigForeign, heal>>

\* A process whose identifier the probe cannot determine takes or leaves a port.
EnvUnknownBind(q) ==
    /\ EnvEvent
    /\ listener[q] = None
    /\ listener' = [listener EXCEPT ![q] = UnknownOwner]
    /\ UNCHANGED <<ptab, pidfile, enabled, denied, pc, stack, loc, sigForeign, heal>>

EnvUnknownRelease(q) ==
    /\ EnvEvent
    /\ listener[q] = UnknownOwner
    /\ listener' = [listener EXCEPT ![q] = None]
    /\ UNCHANGED <<ptab, pidfile, enabled, denied, pc, stack, loc, sigForeign, heal>>

\* mcp-proxy starts the wrapped service as its child, or the child exits.
EnvChild(p) ==
    /\ EnvEvent
    /\ Alive(p) /\ ptab[p].kind = "proxy"
    /\ ptab' = [ptab EXCEPT ![p].kid = ~@]
    /\ UNCHANGED <<listener, pidfile, enabled, denied, pc, stack, loc, sigForeign, heal>>

\* mcp_servers.yaml is edited: a server is enabled or disabled.
EnvConfig(n) ==
    /\ EnvEvent
    /\ enabled' = [enabled EXCEPT ![n] = ~enabled[n]]
    /\ UNCHANGED <<ptab, listener, pidfile, denied, pc, stack, loc, sigForeign, heal>>

\* ------------------------------------------------------------ the script
NoLocals == [cmd |-> "-", srv |-> "-", cfg |-> [n \in Names |-> FALSE], idx |-> 0,
             lpid |-> None, spid |-> None, proc |-> None,
             had |-> [n \in Names |-> None], out |-> [n \in Names |-> "-"]]

\* load_pid: the identifier in the PID file, None when there is none.
load_pid(name) == pidfile[name]

\* is_running: psutil.pid_exists, whoever the process is.
is_running(pid) == pid # None /\ Alive(pid)

\* is_port_in_use: the listener's identifier, UnknownOwner when it has none,
\* None when nothing listens and also when the connection table is denied.
is_port_in_use(port) == IF denied THEN None ELSE listener[port]

\* The positions inside start_server and inside stop_server.
StartPcs == {"s_load", "s_verify", "s_stale", "s_port", "s_spawn", "s_save"}
StopPcs == {"t_load", "t_stale", "t_kids", "t_kkill", "t_pterm", "t_pwait", "t_rm"}

\* The seconds caller c sleeps on its way to position l: restart_server's
\* time.sleep(2) and the time.sleep(1) of start_server and of run_daemon, all
\* between the return of stop_server and what follows it.
Slept(c, l) ==
    IF pc[c] \in StopPcs /\ l = "s_load" THEN (IF c = "daemon" THEN 1 ELSE 2)
    ELSE IF pc[c] \in StopPcs /\ l = "s_port" THEN 1
    ELSE 0

\* The port of server n has a listener that is not a process of the script:
\* a foreign process, or one the probe cannot identify.
Conflict(n) ==
    LET o == listener[PortOf(n)] IN
    o = UnknownOwner \/ (o \in Pids /\ ptab[o].kind = "foreign")

\* What the step of caller c to position l adds to the counts of the
\* observer of port conflicts: stop_server found the recorded process of
\* the server running (a stop of it begins), or Popen returned a process,
\* while the port of the server is taken.
Stops(c, l) ==
    IF pc[c] = "t_load" /\ l = "t_kids" /\ Conflict(loc[c].srv) THEN 1 ELSE 0
Spawns(c, l) ==
    IF pc[c] = "s_spawn" /\ l = "s_save" /\ Conflict(loc[c].srv) THEN 1 ELSE 0

\* One step of caller c: to position l with return positions st and locals lc;
\* code is the exit status where the step ends the process, files the log
\* files after the step.  Where the clock is followed, the step takes the
\* time of its sleeps.
StepLog(c, l, st, lc, code, files) ==
    /\ logs.on => logs.now + Slept(c, l) <= MaxClock
    /\ logs' = IF logs.on
               THEN [logs EXCEPT !.now = @ + Slept(c, l), !.files = files]
               ELSE logs
    /\ pc' = [pc EXCEPT ![c] = l]
    /\ stack' = [stack EXCEPT ![c] = st]
    /\ UNCHANGED <<envs, bad, unparsable, build, missing>>
    /\ heal' = IF pc[c] = "d_sleep" /\ l = "d_iter" THEN Ticked ELSE heal
    /\ loc' = [loc EXCEPT ![c] = IF l \in {"idle", "exited", "d_sleep"} THEN NoLocals ELSE lc]
    /\ rc' = IF rc.on /\ l \in {"idle", "exited"}
             THEN [rc EXCEPT !.code[c] = <<code>>] ELSE rc
    /\ storm.on /\ Stops(c, l) + Spawns(c, l) > 0
          => /\ storm.stops[loc[c].srv] + Stops(c, l) <= MaxStops
             /\ storm.spawns[loc[c].srv] + Spawns(c, l) <= MaxStops
    /\ storm' = IF storm.on /\ Stops(c, l) + Spawns(c, l) > 0
                THEN [storm EXCEPT !.stops[loc[c].srv] = @ + Stops(c, l),
                                   !.spawns[loc[c].srv] = @ + Spawns(c, l)]
                ELSE storm

\* A step that opens no log file.
StepExit(c, l, st, lc, code) == StepLog(c, l, st, lc, code, logs.files)

\* A step that does not fail: where it ends the process, main returns or
\* calls sys.exit(0).
Step(c, l, st, lc) == StepExit(c, l, st, lc, 0)

\* The return of start_server (its locals die with it).
StartReturn(c) ==
    Step(c, Head(stack[c]), Tail(stack[c]),
         [loc[c] EXCEPT !.lpid = None, !.proc = None])

\* The return of stop_server.
StopReturn(c) ==
    Step(c, Head(stack[c]), Tail(stack[c]),
         [loc[c] EXCEPT !.spid = None])

\* --- start_server ---------------------------------------------------------
\* Lines 123-124, 137: where start_server goes after reading the PID file.
StartRecordBranch(pid) ==
    IF is_running(pid) THEN "s_verify"
    ELSE IF pid # None THEN "s_stale"
    ELSE "s_port"

\* A bug for StartVerifyBranch: the comparison with the recorded identifier
\* never succeeds.
StartVerifyBranchNeverEqual(pid, port_pid) ==
    IF port_pid # None THEN "s_port" ELSE "stop"

\* Lines 126-136: the recorded process runs; what the port's owner decides.
StartVerifyBranch(pid, port_pid) ==
    IF port_pid = pid THEN "return"
    ELSE IF port_pid # None THEN "s_port"
    ELSE "stop"

\* Lines 142-145: the port check before the spawn.
StartPortBranch(port_pid) ==
    IF port_pid # None THEN "return" ELSE "s_spawn"

\* A bug for StartLoad: the start_command is not looked at before the
\* PID file is read.
StartLoadWithoutCommandCheck(c) ==
    /\ pc[c] = "s_load"
    /\ IF missing[loc[c].srv] \in {"name", "internal_port"}
       THEN StartReturn(c)
       ELSE LET pid == load_pid(loc[c].srv) IN
              Step(c, StartRecordBranch(pid), stack[c], [loc[c] EXCEPT !.lpid = pid])
    /\ UNCHANGED <<ptab, listener, pidfile, enabled, denied, sigForeign>>

\* Lines 105-114: without a name, an internal_port or a start_command the
\* error is logged and start_server returns.  Otherwise
\* pid = load_pid(name); is_running(pid)
StartLoad(c) ==
    /\ pc[c] = "s_load"
    /\ IF missing[loc[c].srv] # "-"
       THEN StartReturn(c)
       ELSE LET pid == load_pid(loc[c].srv) IN
              Step(c, StartRecordBranch(pid), stack[c], [loc[c] EXCEPT !.lpid = pid])
    /\ UNCHANGED <<ptab, listener, pidfile, enabled, denied, sigForeign>>

\* The recorded process runs: port_pid = is_port_in_use(internal_port).
StartVerify(c) ==
    /\ pc[c] = "s_verify"
    /\ LET b == StartVerifyBranch(loc[c].lpid, is_port_in_use(PortOf(loc[c].srv))) IN
         CASE b = "return" -> StartReturn(c)
           [] b = "stop" -> Step(c, "t_load", <<"s_port">> \o stack[c], loc[c])
           [] OTHER -> Step(c, b, stack[c], loc[c])
    /\ UNCHANGED <<ptab, listener, pidfile, enabled, denied, sigForeign>>

\* remove_pid_file(name) of a stale PID file.
StartStale(c) ==
    /\ pc[c] = "s_stale"
    /\ pidfile' = [pidfile EXCEPT ![loc[c].srv] = None]
    /\ Step(c, "s_port", stack[c], loc[c])
    /\ UNCHANGED <<ptab, listener, enabled, denied, sigForeign>>

\* The daemon is inside the try block of run_daemon.
InTry(c) ==
    \/ pc[c] \in {"d_sleep", "d_load", "d_skip", "d_iter", "d_rm"}
    \/ stack[c] # <<>> /\ stack[c][Len(stack[c])] = "d_iter"

\* An exception leaves start_server.  Nothing catches it in main and in
\* start_all_servers: the command ends, and the daemon in its start-up ends
\* without cleaning up.  In the loop of run_daemon the except clause of line
\* 473, outside the while loop, logs it and the finally clause runs
\* stop_all_servers: the loop is over.  An uncaught exception ends the
\* interpreter with status 1.
Raise(c) ==
    IF c = "daemon" /\ InTry(c)
    THEN Step(c, "sa_iter", <<>>, [NoLocals EXCEPT !.cfg = enabled, !.idx = 1])
    ELSE StepExit(c, IF c = "daemon" THEN "exited" ELSE "idle", <<>>, NoLocals, 1)

\* log_filename, line 195: the name of the server and
\* time.strftime('%Y%m%d%H%M%S'), the local time in whole seconds.
LogName(name, now) == <<name, now>>

\* The port check; the command list, the working directory and the log file
\* follow it without touching the registry or a process.  shlex.split of
\* the start command (lines 148-158) ends start_server when it raises
\* ValueError or yields no part; the log file is opened with mode "w"
\* (lines 195-198) under its name for this second.  Building the
\* command list calls server_env.items() (line 171), which raises when the
\* "env" of the server is not a mapping.
StartPort(c) ==
    /\ pc[c] = "s_port"
    /\ LET b == StartPortBranch(is_port_in_use(PortOf(loc[c].srv))) IN
         IF b = "return" \/ loc[c].srv \in unparsable THEN StartReturn(c)
         ELSE IF loc[c].srv \in bad THEN Raise(c)
         ELSE StepLog(c, b, stack[c], loc[c], 0,
                      logs.files \cup {LogName(loc[c].srv, logs.now)})
    /\ UNCHANGED <<ptab, listener, pidfile, enabled, denied, sigForeign>>

\* A bug for StartSpawn: a Popen that raises still leaves a process behind.
StartSpawnFailureLeavesProcess(c) ==
    /\ pc[c] = "s_spawn"
    /\ \/ \E p \in FreePids :
            /\ ptab' = [ptab EXCEPT ![p] = Proxy(loc[c].srv)]
            /\ Step(c, "s_save", stack[c], [loc[c] EXCEPT !.proc = p])
       \/ \E p \in FreePids :
            /\ ptab' = [ptab EXCEPT ![p] = Proxy(loc[c].srv)]
            /\ StartReturn(c)
    /\ UNCHANGED <<listener, pidfile, enabled, denied, sigForeign>>

\* subprocess.Popen: a new mcp-proxy process, or an exception and the return.
StartSpawn(c) ==
    /\ pc[c] = "s_spawn"
    /\ \/ \E p \in FreePids :
            /\ ptab' = [ptab EXCEPT ![p] = Proxy(loc[c].srv)]
            /\ Step(c, "s_save", stack[c], [loc[c] EXCEPT !.proc = p])
       \/ /\ StartReturn(c)
          /\ UNCHANGED ptab
    /\ UNCHANGED <<listener, pidfile, enabled, denied, sigForeign>>

\* save_pid(name, process.pid); a failed write is logged and leaves the file.
StartSave(c) ==
    /\ pc[c] = "s_save"
    /\ \/ pidfile' = [pidfile EXCEPT ![loc[c].srv] = loc[c].proc]
       \/ UNCHANGED pidfile
    /\ StartReturn(c)
    /\ UNCHANGED <<ptab, listener, enabled, denied, sigForeign>>

\* --- stop_server ----------------------------------------------------------
\* Lines 253-254, 297, 300: where stop_server goes after reading the PID file.
StopRecordBranch(pid) ==
    IF is_running(pid) THEN "t_kids"
    ELSE IF pid # None THEN "t_stale"
    ELSE "return"

\* A signal reaches the processes of S: whether one of them is a process the
\* script never spawned.
Signalled(S) == sigForeign \/ \E p \in S : ptab[p].kind = "foreign"

\* A bug for StopLoad: with no PID file, the process found on the port is
\* killed.
StopLoadKillsPortOwner(c) ==
    /\ pc[c] = "t_load"
    /\ LET pid == load_pid(loc[c].srv)
           b == StopRecordBranch(pid)
           owner == {p \in Pids : pid = None /\ listener[PortOf(loc[c].srv)] = p} IN
         /\ IF b = "return" THEN StopReturn(c)
            ELSE Step(c, b, stack[c], [loc[c] EXCEPT !.spid = pid])
         /\ ptab' = Reap(owner)
         /\ listener' = Release(owner)
         /\ sigForeign' = Signalled(owner)
    /\ UNCHANGED <<pidfile, enabled, denied>>

\* pid = load_pid(name); is_running(pid)
StopLoad(c) ==
    /\ pc[c] = "t_load"
    /\ LET pid == load_pid(loc[c].srv)
           b == StopRecordBranch(pid) IN
         IF b = "return" THEN StopReturn(c)
         ELSE Step(c, b, stack[c], [loc[c] EXCEPT !.spid = pid])
    /\ UNCHANGED <<ptab, listener, pidfile, enabled, denied, sigForeign>>

\* remove_pid_file(name) of a stale PID file.
StopStale(c) ==
    /\ pc[c] = "t_stale"
    /\ pidfile' = [pidfile EXCEPT ![loc[c].srv] = None]
    /\ StopReturn(c)
    /\ UNCHANGED <<ptab, listener, enabled, denied, sigForeign>>

\* A bug for StopChildren: the children are signalled and the recorded
\* process is terminated next, without the wait and the kill of survivors.
StopChildrenWithoutEscalation(c) ==
    /\ pc[c] = "t_kids"
    /\ LET p == loc[c].spid IN
       IF ~Alive(p)
       THEN /\ Step(c, "t_rm", stack[c], loc[c])
            /\ UNCHANGED ptab
       ELSE /\ \/ ptab' = [ptab EXCEPT ![p].kid = FALSE]
               \/ UNCHANGED ptab
            /\ Step(c, "t_pterm", stack[c], loc[c])
    /\ UNCHANGED <<listener, pidfile, enabled, denied, sigForeign>>

\* psutil.Process(pid), children(recursive=True) and terminate() of each
\* child; a child exits on the signal or survives it.
StopChildren(c) ==
    /\ pc[c] = "t_kids"
    /\ LET p == loc[c].spid IN
       IF ~Alive(p)
       THEN /\ Step(c, "t_rm", stack[c], loc[c])
            /\ UNCHANGED ptab
       ELSE IF ~ptab[p].kid
       THEN /\ Step(c, "t_pterm", stack[c], loc[c])
            /\ UNCHANGED ptab
       ELSE /\ \/ ptab' = [ptab EXCEPT ![p].kid = FALSE]
               \/ UNCHANGED ptab
            /\ Step(c, "t_kkill", stack[c], loc[c])
    /\ UNCHANGED <<listener, pidfile, enabled, denied, sigForeign>>

\* wait_procs(children, timeout=3) and kill() of each child still alive.
StopKillChildren(c) ==
    /\ pc[c] = "t_kkill"
    /\ LET p == loc[c].spid IN
         ptab' = IF Alive(p) THEN [ptab EXCEPT ![p].kid = FALSE] ELSE ptab
    /\ Step(c, "t_pterm", stack[c], loc[c])
    /\ UNCHANGED <<listener, pidfile, enabled, denied, sigForeign>>

\* A bug for StopTerminate: no finally clause; when the process is gone
\* already or the signal is refused, stop_server returns with the PID file
\* in place.
StopTerminateWithoutFinally(c) ==
    /\ pc[c] = "t_pterm"
    /\ LET p == loc[c].spid IN
         \/ /\ ~Alive(p) \/ ptab[p].kind = "foreign"
            /\ StopReturn(c)
            /\ UNCHANGED <<ptab, listener, sigForeign>>
         \/ /\ Alive(p)
            /\ sigForeign' = Signalled({p})
            /\ \/ /\ ptab' = Reap({p})
                  /\ listener' = Release({p})
                  /\ Step(c, "t_rm", stack[c], loc[c])
               \/ /\ Step(c, "t_pwait", stack[c], loc[c])
                  /\ UNCHANGED <<ptab, listener>>
    /\ UNCHANGED <<pidfile, enabled, denied>>

\* process.terminate(): the process is gone already (NoSuchProcess), the
\* signal is refused (AccessDenied, a process of another user; the fallback
\* kill is refused alike), or it is delivered and the process exits on it
\* or survives it.
StopTerminate(c) ==
    /\ pc[c] = "t_pterm"
    /\ LET p == loc[c].spid IN
         \/ /\ ~Alive(p)
            /\ Step(c, "t_rm", stack[c], loc[c])
            /\ UNCHANGED <<ptab, listener, sigForeign>>
         \/ /\ Alive(p) /\ ptab[p].kind = "foreign"
            /\ Step(c, "t_rm", stack[c], loc[c])
            /\ UNCHANGED <<ptab, listener, sigForeign>>
         \/ /\ Alive(p)
            /\ sigForeign' = Signalled({p})
            /\ \/ /\ ptab' = Reap({p})
                  /\ listener' = Release({p})
                  /\ Step(c, "t_rm", stack[c], loc[c])
               \/ /\ Step(c, "t_pwait", stack[c], loc[c])
                  /\ UNCHANGED <<ptab, listener>>
    /\ UNCHANGED <<pidfile, enabled, denied>>

\* A bug for StopKill: when the wait runs out the failure is reported and
\* the process is left alone.
StopKillReportsFailure(c) ==
    /\ pc[c] = "t_pwait"
    /\ Step(c, "t_rm", stack[c], loc[c])
    /\ UNCHANGED <<ptab, listener, sigForeign, pidfile, enabled, denied>>

\* A bug for StopKill: process.wait() without a timeout; stop_server waits
\* as long as the process lives.
StopKillWaitsForExit(c) ==
    /\ pc[c] = "t_pwait"
    /\ ~Alive(loc[c].spid)
    /\ Step(c, "t_rm", stack[c], loc[c])
    /\ UNCHANGED <<ptab, listener, sigForeign, pidfile, enabled, denied>>

\* process.wait(timeout=5) ran out: process.kill() and process.wait(timeout=2).
StopKill(c) ==
    /\ pc[c] = "t_pwait"
    /\ LET alive == {p \in {loc[c].spid} : Alive(p)} IN
         /\ ptab' = Reap(alive)
         /\ listener' = Release(alive)
         /\ sigForeign' = Signalled(alive)
    /\ Step(c, "t_rm", stack[c], loc[c])
    /\ UNCHANGED <<pidfile, enabled, denied>>

\* finally: remove_pid_file(name)
StopRemove(c) ==
    /\ pc[c] = "t_rm"
    /\ pidfile' = [pidfile EXCEPT ![loc[c].srv] = None]
    /\ StopReturn(c)
    /\ UNCHANGED <<ptab, listener, enabled, denied, sigForeign>>

\* --- restart_server and main ------------------------------------------------
\* A bug for RestartPlan: the stop is left out.
RestartPlanSkipsStop == <<"s_load">>

\* restart_server, lines 307-309: stop_server, a pause, start_server.
RestartPlan == <<"t_load", "s_load">>

\* A bug for MainPlan: start does not look at the enabled flag.
MainPlanStartsDisabled(cmd, en) ==
    CASE cmd = "start" -> <<"s_load">>
      [] cmd = "stop" -> <<"t_load">>
      [] cmd = "restart" -> IF en THEN <<"t_load", "s_load">> ELSE <<"t_load">>

\* A bug for MainPlan: restart does not look at the enabled flag.
MainPlanRestartsDisabled(cmd, en) ==
    CASE cmd = "start" -> IF en THEN <<"s_load">> ELSE <<>>
      [] cmd = "stop" -> <<"t_load">>
      [] cmd = "restart" -> RestartPlan

\* main, lines 521-534: the calls a command makes on its target server.
MainPlan(cmd, en) ==
    CASE cmd = "start" -> IF en THEN <<"s_load">> ELSE <<>>
      [] cmd = "stop" -> <<"t_load">>
      [] cmd = "restart" -> IF en THEN RestartPlan ELSE <<"t_load">>

Commands == {"start", "stop", "restart"}

\* main: the command line is read, load_config, the target server is found.
CliInvoke(c, cmd, n) ==
    /\ c = "cli" /\ pc[c] = "idle"
    /\ Step(c, "m_dispatch", <<>>,
            [NoLocals EXCEPT !.cmd = cmd, !.srv = n, !.cfg[n] = enabled[n]])
    /\ UNCHANGED <<ptab, listener, pidfile, enabled, denied, sigForeign>>

\* main: the server named on the command line is not in the configuration
\* (target_server is None).
CliInvokeMissing(c, cmd) ==
    /\ c = "cli" /\ pc[c] = "idle"
    /\ Step(c, "m_dispatch", <<>>, [NoLocals EXCEPT !.cmd = cmd])
    /\ UNCHANGED <<ptab, listener, pidfile, enabled, denied, sigForeign>>

\* main: without a target server sys.exit(1) (lines 515-517); otherwise the
\* command is executed for the target server and main returns.
CliDispatch(c) ==
    /\ pc[c] = "m_dispatch"
    /\ IF loc[c].srv = "-"
       THEN StepExit(c, "idle", <<>>, NoLocals, 1)
       ELSE LET plan == MainPlan(loc[c].cmd, loc[c].cfg[loc[c].srv]) \o <<"idle">> IN
              Step(c, Head(plan), Tail(plan), [loc[c] EXCEPT !.cmd = "-"])
    /\ UNCHANGED <<ptab, listener, pidfile, enabled, denied, sigForeign>>

\* --- the mcp-proxy invocation ------------------------------------------------
\* The characters start commands are made of: two letters, the blank and
\* the single quote.
CmdChars == {"x", "y", " ", "'"}

\* shlex.split(s) in POSIX mode over these characters: blanks separate the
\* parts, a quoted stretch is taken literally and joins the part around it,
\* '' is an empty part; ok is FALSE where shlex raises ValueError ("No
\* closing quotation").  cur is the part being read, tok says one is being
\* read, q says a quote is open, acc holds the parts read.
RECURSIVE Lex(_, _, _, _, _)
Lex(s, cur, tok, q, acc) ==
    IF s = ""
    THEN [ok |-> ~q, parts |-> IF tok THEN Append(acc, cur) ELSE acc]
    ELSE LET ch == SubSeq(s, 1, 1)
             r == SubSeq(s, 2, Len(s)) IN
         IF q
         THEN IF ch = "'" THEN Lex(r, cur, TRUE, FALSE, acc)
              ELSE Lex(r, cur \o ch, TRUE, TRUE, acc)
         ELSE IF ch = " " THEN Lex(r, "", FALSE, FALSE, IF tok THEN Append(acc, cur) ELSE acc)
         ELSE IF ch = "'" THEN Lex(r, cur, TRUE, TRUE, acc)
         ELSE Lex(r, cur \o ch, TRUE, FALSE, acc)

shlex_split(s) == Lex(s, "", FALSE, FALSE, <<>>)

\* str(internal_port)
Str(port) == IF port = 1 THEN "1" ELSE "2"

\* The "-e KEY VALUE" arguments, one triple for each entry of server_env in
\* the order of the mapping (lines 171-172).
RECURSIVE EnvArgs(_)
EnvArgs(env) ==
    IF env = <<>> THEN <<>>
    ELSE <<"-e", Head(env)[1], Head(env)[2]>> \o EnvArgs(Tail(env))

\* A bug for CommandList: the -e arguments follow the wrapped command.
CommandListEnvLast(host, port, origin, env, parts) ==
    <<"mcp-proxy", "--sse-host", host, "--sse-port", Str(port), "--allow-origin", origin>>
        \o parts \o EnvArgs(env)

\* mcp_proxy_command_list, lines 161-176.
CommandList(host, port, origin, env, parts) ==
    <<"mcp-proxy", "--sse-host", host, "--sse-port", Str(port), "--allow-origin", origin>>
        \o EnvArgs(env) \o parts

\* No invocation is being constructed.
NoBuild == [st |-> "off"]

\* start_server from the parsing of the start command to the environment of
\* mcp-proxy (lines 147-192): the command is split, the list is built and
\* process_env is a copy of os.environ; a command that cannot be split or
\* has no part ends start_server.
StartBuild ==
    /\ build.st = "in"
    /\ LET sp == shlex_split(build.cmd) IN
       IF ~sp.ok \/ sp.parts = <<>>
       THEN build' = [build EXCEPT !.st = "returned"]
       ELSE build' = [build EXCEPT
                        !.st = "built",
                        !.list = CommandList(build.host, build.port, build.origin,
                                             build.env, sp.parts),
                        !.process_env = build.environ]
    /\ UNCHANGED <<ptab, listener, pidfile, enabled, denied, pc, stack, loc,
                   sigForeign, envs, heal, bad, unparsable, logs, rc, storm, missing>>

\* The log file is written (lines 194-209) and the invocation is handed to
\* Popen (lines 218-227).
StartHandOver ==
    /\ build.st = "built"
    /\ build' = [build EXCEPT !.st = "spawned"]
    /\ UNCHANGED <<ptab, listener, pidfile, enabled, denied, pc, stack, loc,
                   sigForeign, envs, heal, bad, unparsable, logs, rc, storm, missing>>

\* --- status -----------------------------------------------------------------
\* A bug for server_status: the "Stopped" assignment of the last branch is
\* missing, only a stale PID file is labelled there.
server_statusWithoutStopped(en, pid, port_pid) ==
    IF ~en THEN "Disabled"
    ELSE IF is_running(pid)
    THEN IF port_pid = pid THEN "Running (Proxy Port OK)"
         ELSE IF port_pid # None THEN "Running (Proxy Port Conflict)"
         ELSE "Running (Proxy Port Not Listening?)"
    ELSE IF port_pid # None THEN "Stopped (Proxy Port In Use Externally)"
    ELSE IF pid # None THEN "Stopped (Stale Proxy PID?)"
    ELSE "Unknown"

\* server_status, lines 324-351: status_str for a server with the enabled
\* flag en, the PID file's content pid and the probe's answer port_pid.
\* Every server has an internal_port, so the branch "Running (Proxy Port
\* status unknown)" of a server without one is never taken.  The initial
\* "Unknown" stays where no branch assigns.
server_status(en, pid, port_pid) ==
    IF ~en THEN "Disabled"
    ELSE IF is_running(pid)
    THEN IF port_pid = pid THEN "Running (Proxy Port OK)"
         ELSE IF port_pid # None THEN "Running (Proxy Port Conflict)"
         ELSE "Running (Proxy Port Not Listening?)"
    ELSE IF port_pid # None THEN "Stopped (Proxy Port In Use Externally)"
    ELSE IF pid # None THEN "Stopped (Stale Proxy PID?)"
    ELSE "Stopped"

\* main, command "status": print_status_table reads the configuration.
CliStatus(c) ==
    /\ c = "cli" /\ pc[c] = "idle"
    /\ Step(c, "st_iter", <<>>, [NoLocals EXCEPT !.cfg = enabled, !.idx = 1])
    /\ UNCHANGED <<ptab, listener, pidfile, enabled, denied, sigForeign>>

\* print_status_table: server_status of the next server, which removes the
\* PID file it labels stale (line 351); after the last one the table is
\* printed and the command ends.
StatusStep(c) ==
    /\ pc[c] = "st_iter"
    /\ IF loc[c].idx > Len(Servers)
       THEN /\ Step(c, "idle", <<>>, NoLocals)
            /\ UNCHANGED pidfile
       ELSE LET n == Servers[loc[c].idx]
                st == server_status(loc[c].cfg[n], load_pid(n), is_port_in_use(PortOf(n))) IN
            /\ Step(c, "st_iter", <<>>,
                    [loc[c] EXCEPT !.srv = n, !.idx = @ + 1, !.out[n] = st])
            /\ pidfile' = IF st = "Stopped (Stale Proxy PID?)"
                          THEN [pidfile EXCEPT ![n] = None] ELSE pidfile
    /\ UNCHANGED <<ptab, listener, enabled, denied, sigForeign>>

\* --- run_daemon -------------------------------------------------------------
\* Lines 451-469: what a tick does for an enabled server.
DaemonBranch(pid, port_pid) ==
    IF pid # None /\ ~is_running(pid) THEN "dead"
    ELSE IF pid # None /\ is_running(pid) THEN (IF port_pid # pid THEN "degraded" ELSE "ok")
    ELSE IF port_pid # None THEN "conflict"
    ELSE "start"

\* A bug for DaemonPlan: the degraded server is started before it is stopped.
DaemonPlanStartsBeforeStop(b) ==
    CASE b = "dead" -> <<"d_rm", "s_load", "d_iter">>
      [] b = "degraded" -> <<"s_load", "t_load", "d_iter">>
      [] b = "start" -> <<"s_load", "d_iter">>
      [] OTHER -> <<"d_iter">>

\* A bug for DaemonPlan: a server without a PID file and with a free port
\* is only logged.
DaemonPlanWithoutSelfHealing(b) ==
    CASE b = "dead" -> <<"d_rm", "s_load", "d_iter">>
      [] b = "degraded" -> <<"t_load", "s_load", "d_iter">>
      [] OTHER -> <<"d_iter">>

\* The calls of a tick for each case, then the next server.
DaemonPlan(b) ==
    CASE b = "dead" -> <<"d_rm", "s_load", "d_iter">>
      [] b = "degraded" -> <<"t_load", "s_load", "d_iter">>
      [] b = "start" -> <<"s_load", "d_iter">>
      [] OTHER -> <<"d_iter">>

\* run_daemon calls start_all_servers: load_config.
DaemonBoot(c) ==
    /\ c = "daemon" /\ pc[c] = "d_boot"
    /\ Step(c, "da_iter", <<>>, [NoLocals EXCEPT !.cfg = enabled, !.idx = 1])
    /\ UNCHANGED <<ptab, listener, pidfile, enabled, denied, sigForeign>>

\* run_daemon when load_config returns None: start_all_servers returns at
\* line 401, run_daemon logs and returns at line 434, main calls sys.exit(0).
DaemonBootNoConfig(c) ==
    /\ c = "daemon" /\ pc[c] = "d_boot"
    /\ Step(c, "exited", <<>>, NoLocals)
    /\ UNCHANGED <<ptab, listener, pidfile, enabled, denied, sigForeign>>

\* start_all_servers: start_server for the next server if it is enabled.
DaemonStartAll(c) ==
    /\ pc[c] = "da_iter"
    /\ IF loc[c].idx > Len(Servers)
       THEN Step(c, "d_sleep", <<>>, loc[c])
       ELSE LET n == Servers[loc[c].idx]
                lc == [loc[c] EXCEPT !.srv = n, !.idx = @ + 1] IN
            IF loc[c].cfg[n] THEN Step(c, "s_load", <<"da_iter">>, lc)
            ELSE Step(c, "da_iter", <<>>, lc)
    /\ UNCHANGED <<ptab, listener, pidfile, enabled, denied, sigForeign>>

\* The loop: time.sleep(30), then load_config for this tick.
DaemonTick(c) ==
    /\ pc[c] = "d_sleep"
    /\ Step(c, "d_iter", <<>>, [loc[c] EXCEPT !.cfg = enabled, !.idx = 1, !.srv = "-"])
    /\ UNCHANGED <<ptab, listener, pidfile, enabled, denied, sigForeign>>

\* The loop in three steps, for the runs where load_config can fail:
\* time.sleep(30) returns (line 438),
DaemonWake(c) ==
    /\ c = "daemon" /\ pc[c] = "d_sleep"
    /\ Step(c, "d_load", <<>>, loc[c])
    /\ UNCHANGED <<ptab, listener, pidfile, enabled, denied, sigForeign>>

\* load_config returns the configuration, or None because the file is
\* missing, unreadable or not of the expected structure (lines 440-441),
DaemonReload(c) ==
    /\ pc[c] = "d_load"
    /\ \/ Step(c, "d_iter", <<>>, [loc[c] EXCEPT !.cfg = enabled, !.idx = 1, !.srv = "-"])
       \/ Step(c, "d_skip", <<>>, loc[c])
    /\ UNCHANGED <<ptab, listener, pidfile, enabled, denied, sigForeign>>

\* A bug for DaemonSkip: return instead of continue, as at line 434.
DaemonSkipEndsLoop(c) ==
    /\ pc[c] = "d_skip"
    /\ Step(c, "exited", <<>>, NoLocals)
    /\ UNCHANGED <<ptab, listener, pidfile, enabled, denied, sigForeign>>

\* and without a configuration the error is logged and the cycle is skipped
\* (lines 442-443): continue.
DaemonSkip(c) ==
    /\ pc[c] = "d_skip"
    /\ Step(c, "d_sleep", <<>>, loc[c])
    /\ UNCHANGED <<ptab, listener, pidfile, enabled, denied, sigForeign>>

\* A tick's check of the next server: load_pid, is_running, is_port_in_use.
DaemonCheck(c) ==
    /\ pc[c] = "d_iter"
    /\ IF loc[c].idx > Len(Servers)
       THEN Step(c, "d_sleep", <<>>, loc[c])
       ELSE LET n == Servers[loc[c].idx]
                lc == [loc[c] EXCEPT !.srv = n, !.idx = @ + 1]
                plan == IF loc[c].cfg[n]
                        THEN DaemonPlan(DaemonBranch(load_pid(n), is_port_in_use(PortOf(n))))
                        ELSE <<"d_iter">> IN
            Step(c, Head(plan), Tail(plan), lc)
    /\ UNCHANGED <<ptab, listener, pidfile, enabled, denied, sigForeign>>

\* The recorded process is gone: remove_pid_file(name) before start_server.
DaemonRemove(c) ==
    /\ pc[c] = "d_rm"
    /\ pidfile' = [pidfile EXCEPT ![loc[c].srv] = None]
    /\ Step(c, Head(stack[c]), Tail(stack[c]), loc[c])
    /\ UNCHANGED <<ptab, listener, enabled, denied, sigForeign>>

\* The caller is inside the try block of stop_server (lines 256-296).
InStopTry(c) == pc[c] \in {"t_kids", "t_kkill", "t_pterm", "t_pwait", "t_rm"}

\* The servers whose PID file names a running process, with that process.
LiveRecords == [n \in Names |-> IF is_running(load_pid(n)) THEN load_pid(n) ELSE None]

\* SIGINT or SIGTERM: signal_handler calls sys.exit(0).  SystemExit passes
\* the except clauses; on its way out of stop_server the finally clause
\* removes the PID file, and inside the try block of run_daemon the finally
\* clause runs stop_all_servers; before that block nothing is cleaned up.
\* had keeps the records that were live when the signal arrived.
DaemonSignal(c) ==
    /\ c = "daemon" /\ pc[c] \notin {"d_boot", "exited", "sa_iter"}
    /\ ~(stack[c] # <<>> /\ stack[c][Len(stack[c])] = "sa_iter")
    /\ IF InTry(c)
       THEN Step(c, "sa_iter", <<>>,
                 [NoLocals EXCEPT !.cfg = enabled, !.idx = 1, !.had = LiveRecords])
       ELSE Step(c, "exited", <<>>, NoLocals)
    /\ pidfile' = IF InStopTry(c) THEN [pidfile EXCEPT ![loc[c].srv] = None] ELSE pidfile
    /\ UNCHANGED <<ptab, listener, enabled, denied, sigForeign>>

\* stop_all_servers: stop_server for the next server that has a PID file.
StopAll(c) ==
    /\ pc[c] = "sa_iter"
    /\ IF loc[c].idx > Len(Servers)
       THEN Step(c, "exited", <<>>, NoLocals)
       ELSE LET n == Servers[loc[c].idx]
                lc == [loc[c] EXCEPT !.srv = n, !.idx = @ + 1] IN
            IF load_pid(n) # None THEN Step(c, "t_load", <<"sa_iter">>, lc)
            ELSE Step(c, "sa_iter", <<>>, lc)
    /\ UNCHANGED <<ptab, listener, pidfile, enabled, denied, sigForeign>>

\* ------------------------------------------------------------ specification
\* Nothing runs, no PID file exists, every server is enabled; the daemon is
\* about to start, no command runs.
InitState ==
    /\ ptab = [p \in Pids |-> Dead]
    /\ listener = [q \in Ports |-> None]
    /\ pidfile = [n \in Names |-> None]
    /\ enabled = [n \in Names |-> TRUE]
    /\ denied \in BOOLEAN
    /\ pc = [c \in Callers |-> IF c = "daemon" THEN "d_boot" ELSE "idle"]
    /\ stack = [c \in Callers |-> <<>>]
    /\ loc = [c \in Callers |-> NoLocals]
    /\ sigForeign = FALSE
    /\ envs = 0

NoLogs == [on |-> FALSE, now |-> 0, files |-> {}]

NoExitCodes == [on |-> FALSE, code |-> [c \in Callers |-> <<>>]]

\* Every entry has its name, its internal_port and its start_command.
NoMissing == [n \in Names |-> "-"]

NoStorm == [on |-> FALSE, stops |-> [n \in Names |-> 0], spawns |-> [n \in Names |-> 0]]

Init == InitState /\ heal = [n \in Names |-> "off"] /\ bad = {} /\ unparsable = {} /\ build = NoBuild /\ logs = NoLogs /\ rc = NoExitCodes /\ storm = NoStorm /\ missing = NoMissing

Env ==
    \/ \E p \in Pids : EnvExit(p)
    \/ \E p \in Pids : EnvForeignSpawn(p)
    \/ \E p \in Pids, q \in Ports : EnvBind(p, q)
    \/ \E q \in Ports : EnvUnknownBind(q)
    \/ \E q \in Ports : EnvUnknownRelease(q)
    \/ \E p \in Pids : EnvChild(p)
    \/ \E n \in Names : EnvConfig(n)

\* The steps of the script after an operation began.
Steps(c) ==
    \/ StartLoad(c) \/ StartVerify(c) \/ StartStale(c) \/ StartPort(c)
    \/ StartSpawn(c) \/ StartSave(c)
    \/ StopLoad(c) \/ StopStale(c) \/ StopChildren(c) \/ StopKillChildren(c)
    \/ StopTerminate(c) \/ StopKill(c) \/ StopRemove(c)
    \/ CliDispatch(c)
    \/ DaemonStartAll(c) \/ DaemonCheck(c) \/ DaemonRemove(c)

\* No operation of caller c is in progress: no command runs, the daemon
\* sleeps between two ticks or has exited.
Quiet(c) == pc[c] \in {"idle", "d_sleep", "exited"}

\* No operation is in progress and no shutdown has begun: the daemon is
\* before its start-up or between two ticks, no command runs.
BetweenOperations == pc["daemon"] \in {"d_boot", "d_sleep"} /\ pc["cli"] = "idle"

\* Operations that do not overlap: a command, the daemon's start-up, a tick
\* and the shutdown each begin when the other caller is between operations.
\* The environment moves at any time.
Next ==
    \/ Env
    \/ \E c \in Callers : Steps(c)
    \/ \E cmd \in Commands, n \in Names : Quiet("daemon") /\ CliInvoke("cli", cmd, n)
    \/ DaemonBoot("daemon")
    \/ Quiet("cli") /\ DaemonTick("daemon")
    \/ Quiet("cli") /\ DaemonSignal("daemon")
    \/ StopAll("daemon")

Spec == Init /\ [][Next]_vars

\* The command line and the daemon run at the same time, step by step: a
\* command begins at any moment of the daemon's start-up and ticks.
NextConc ==
    \/ \E p \in Pids : envs < MaxEnvConc /\ EnvChild(p)
    \/ \E c \in Callers : Steps(c)
    \/ \E cmd \in Commands, n \in Names : CliInvoke("cli", cmd, n)
    \/ DaemonBoot("daemon")
    \/ DaemonTick("daemon")

SpecConc == Init /\ [][NextConc]_vars

\* The daemon under the conditions of a recovery: the observer is on, every
\* Popen and every write of a PID file succeeds, the only processes are those
\* of the script, the configuration stays, and the only command given is start.
InitHeal == InitState /\ heal = [n \in Names |-> "idle"] /\ bad = {} /\ unparsable = {} /\ build = NoBuild /\ logs = NoLogs /\ rc = NoExitCodes /\ storm = NoStorm /\ missing = NoMissing

NextHeal ==
    \/ \E p \in Pids : EnvExit(p)
    \/ \E p \in Pids, q \in Ports : EnvBind(p, q)
    \/ \E p \in Pids : EnvChild(p)
    \/ \E c \in Callers :
          \/ StartLoad(c) \/ StartVerify(c) \/ StartStale(c) \/ StartPort(c)
          \/ StartSpawn(c) /\ loc'[c].proc # None
          \/ StartSave(c) /\ pidfile'[loc[c].srv] = loc[c].proc
          \/ StopLoad(c) \/ StopStale(c) \/ StopChildren(c) \/ StopKillChildren(c)
          \/ StopTerminate(c) \/ StopKill(c) \/ StopRemove(c)
          \/ CliDispatch(c)
          \/ DaemonStartAll(c) \/ DaemonCheck(c) \/ DaemonRemove(c)
    \/ \E n \in Names : Quiet("daemon") /\ CliInvoke("cli", "start", n)
    \/ DaemonBoot("daemon")
    \/ Quiet("cli") /\ DaemonTick("daemon")

SpecHeal == InitHeal /\ [][NextHeal]_vars

\* The status command alone, from every state it can observe: any processes
\* and listeners, any PID files (naming a live mcp-proxy, a dead process or a
\* process that took over the identifier), any configuration.
InitStatus ==
    /\ ptab \in [Pids -> {Dead, Foreign} \cup {Proxy(n) : n \in Names}]
    /\ listener \in [Ports -> {None, UnknownOwner} \cup Pids]
    /\ \A q \in Ports :
          listener[q] \in Pids
              => /\ Alive(listener[q])
                 /\ ptab[listener[q]].kind = "proxy" => q = PortOf(ptab[listener[q]].svc)
    /\ pidfile \in [Names -> {None} \cup Pids]
    /\ enabled \in [Names -> BOOLEAN]
    /\ denied \in BOOLEAN
    /\ pc = [c \in Callers |-> IF c = "daemon" THEN "exited" ELSE "idle"]
    /\ stack = [c \in Callers |-> <<>>]
    /\ loc = [c \in Callers |-> NoLocals]
    /\ sigForeign = FALSE
    /\ envs = 0
    /\ heal = [n \in Names |-> "off"]
    /\ bad = {}
    /\ unparsable = {}
    /\ build = NoBuild
    /\ logs = NoLogs
    /\ rc = NoExitCodes
    /\ storm = NoStorm /\ missing = NoMissing

NextStatus ==
    \/ CliStatus("cli")
    \/ StatusStep("cli")

SpecStatus == InitStatus /\ [][NextStatus]_vars

\* Batches over a configuration in which the "env" of some server is not a
\* mapping; no shutdown signal arrives.
InitBatch ==
    /\ InitState
    /\ heal = [n \in Names |-> "off"]
    /\ bad \in (SUBSET Names) \ {{}}
    /\ unparsable = {}
    /\ build = NoBuild
    /\ logs = NoLogs
    /\ rc = NoExitCodes
    /\ storm = NoStorm /\ missing = NoMissing

NextBatch ==
    \/ Env
    \/ \E c \in Callers : Steps(c)
    \/ \E cmd \in Commands, n \in Names : Quiet("daemon") /\ CliInvoke("cli", cmd, n)
    \/ DaemonBoot("daemon")
    \/ Quiet("cli") /\ DaemonTick("daemon")
    \/ StopAll("daemon")

SpecBatch == InitBatch /\ [][NextBatch]_vars

\* The commands with their exit codes observed; a command may name a server
\* that is not configured, and the daemon may find no loadable configuration.
InitExit ==
    /\ InitState
    /\ heal = [n \in Names |-> "off"]
    /\ bad = {}
    /\ unparsable = {}
    /\ build = NoBuild
    /\ logs = NoLogs
    /\ rc = [NoExitCodes EXCEPT !.on = TRUE]
    /\ storm = NoStorm /\ missing = NoMissing

NextExit ==
    \/ Next
    \/ \E cmd \in Commands : Quiet("daemon") /\ CliInvokeMissing("cli", cmd)
    \/ DaemonBootNoConfig("daemon")

SpecExit == InitExit /\ [][NextExit]_vars

\* The strings of at most n characters.
RECURSIVE StringsUpTo(_)
StringsUpTo(n) ==
    IF n = 0 THEN {""}
    ELSE LET S == StringsUpTo(n - 1) IN S \cup {s \o ch : s \in S, ch \in CmdChars}

\* The "env" mappings: entries with distinct keys, in the order of the file.
EnvKeys == {"K", "L"}
EnvValues == {"v", "v w"}
EnvMaps ==
    {e \in UNION {[1..k -> EnvKeys \X EnvValues] : k \in 0..MaxEnvLen} :
        \A i, j \in DOMAIN e : i # j => e[i][1] # e[j][1]}

\* The construction of the invocation alone, for every start command,
\* every "env" mapping and every server setting within the bounds; os.environ
\* may already hold a variable the mapping names.
InitBuild ==
    /\ InitState
    /\ heal = [n \in Names |-> "off"]
    /\ bad = {}
    /\ unparsable = {}
    /\ logs = NoLogs
    /\ rc = NoExitCodes
    /\ storm = NoStorm /\ missing = NoMissing
    /\ \E cmd \in StringsUpTo(MaxCmdLen), env \in EnvMaps, port \in Ports,
          host \in {"0.0.0.0", "127.0.0.1"},
          environ \in {{<<"PATH", "/bin">>}, {<<"PATH", "/bin">>, <<"K", "old">>}} :
          build = [st |-> "in", cmd |-> cmd, env |-> env, port |-> port,
                   host |-> host, origin |-> "*", environ |-> environ,
                   list |-> <<>>, process_env |-> {}]

NextBuild ==
    \/ StartBuild
    \/ StartHandOver

SpecBuild == InitBuild /\ [][NextBuild]_vars

\* The script keeps running: a caller inside an operation takes its next
\* step (every wait of the script has a timeout), the environment need not
\* do anything.
Run(c) == Steps(c) \/ StopAll(c)

SpecLive == Init /\ [][Next]_vars /\ \A c \in Callers : WF_vars(Run(c))

\* A port conflict that stays: between two operations a foreign process or
\* one the probe cannot identify takes the port of a server and keeps it:
\* only the processes of the script exit on their own.  The observer
\* counts, the daemon runs, and the only command given is start.
InitStorm ==
    /\ InitState
    /\ heal = [n \in Names |-> "off"]
    /\ bad = {}
    /\ unparsable = {}
    /\ build = NoBuild
    /\ logs = NoLogs
    /\ rc = NoExitCodes
    /\ storm = [NoStorm EXCEPT !.on = TRUE]
    /\ missing = NoMissing

NextStorm ==
    \/ \E p \in Pids : ptab[p].kind = "proxy" /\ EnvExit(p)
    \/ \E p \in Pids : EnvForeignSpawn(p)
    \/ \E p \in Pids, q \in Ports :
          /\ ptab[p].kind = "foreign" => BetweenOperations
          /\ EnvBind(p, q)
    \/ \E q \in Ports : BetweenOperations /\ EnvUnknownBind(q)
    \/ \E p \in Pids : EnvChild(p)
    \/ \E c \in Callers : Steps(c)
    \/ \E n \in Names : Quiet("daemon") /\ CliInvoke("cli", "start", n)
    \/ DaemonBoot("daemon")
    \/ Quiet("cli") /\ DaemonTick("daemon")

SpecStorm == InitStorm /\ [][NextStorm]_vars

\* The daemon alone, with a configuration file that may fail to load at any
\* tick; no command is given and no shutdown signal arrives.  It starts on
\* what an earlier run that was killed left behind: mcp-proxy processes
\* with their PID files, and PID files of processes that are gone.
InitReload ==
    /\ ptab \in [Pids -> {Dead} \cup {Proxy(n) : n \in Names}]
    /\ pidfile \in [Names -> {None} \cup Pids]
    /\ \A p \in Pids : ptab[p].kind = "proxy" => pidfile[ptab[p].svc] = p
    /\ listener = [q \in Ports |-> None]
    /\ enabled = [n \in Names |-> TRUE]
    /\ denied \in BOOLEAN
    /\ pc = [c \in Callers |-> IF c = "daemon" THEN "d_boot" ELSE "idle"]
    /\ stack = [c \in Callers |-> <<>>]
    /\ loc = [c \in Callers |-> NoLocals]
    /\ sigForeign = FALSE
    /\ envs = 0
    /\ heal = [n \in Names |-> "off"]
    /\ bad = {}
    /\ unparsable = {}
    /\ build = NoBuild
    /\ logs = NoLogs
    /\ rc = NoExitCodes
    /\ storm = NoStorm /\ missing = NoMissing

\* The daemon keeps running: its sleep ends and each of its calls returns.
RunReload(c) ==
    \/ DaemonBoot(c) \/ DaemonWake(c) \/ DaemonReload(c) \/ DaemonSkip(c)
    \/ StartLoad(c) \/ StartVerify(c) \/ StartStale(c) \/ StartPort(c)
    \/ StartSpawn(c) \/ StartSave(c)
    \/ StopLoad(c) \/ StopStale(c) \/ StopChildren(c) \/ StopKillChildren(c)
    \/ StopTerminate(c) \/ StopKill(c) \/ StopRemove(c)
    \/ DaemonStartAll(c) \/ DaemonCheck(c) \/ DaemonRemove(c)

NextReload ==
    \/ Env
    \/ RunReload("daemon")

SpecReload == InitReload /\ [][NextReload]_vars /\ WF_vars(RunReload("daemon"))

\* Calls of start_server, from the start command and from the start-up of
\* the daemon, over a configuration in which some entry lacks a key.  The
\* calls find what an earlier run under a complete configuration left
\* behind: mcp-proxy processes with their PID files, and PID files of
\* processes that are gone; an entry without a name has neither.
InitValid ==
    /\ missing \in [Names -> {"-", "name", "internal_port", "start_command"}] \ {NoMissing}
    /\ ptab \in [Pids -> {Dead} \cup {Proxy(n) : n \in Names}]
    /\ pidfile \in [Names -> {None} \cup Pids]
    /\ \A p \in Pids : ptab[p].kind = "proxy"
          => pidfile[ptab[p].svc] = p /\ missing[ptab[p].svc] # "name"
    /\ \A n \in Names : missing[n] = "name" => pidfile[n] = None
    /\ listener = [q \in Ports |-> None]
    /\ enabled = [n \in Names |-> TRUE]
    /\ denied \in BOOLEAN
    /\ pc = [c \in Callers |-> IF c = "daemon" THEN "d_boot" ELSE "idle"]
    /\ stack = [c \in Callers |-> <<>>]
    /\ loc = [c \in Callers |-> NoLocals]
    /\ sigForeign = FALSE
    /\ envs = 0
    /\ heal = [n \in Names |-> "off"]
    /\ bad = {}
    /\ unparsable = {}
    /\ build = NoBuild
    /\ logs = NoLogs
    /\ rc = NoExitCodes
    /\ storm = NoStorm

\* main finds the target server by its name: an entry without a name is
\* reached by start_all_servers only.
NextValid ==
    \/ Env
    \/ \E n \in Names :
          Quiet("daemon") /\ missing[n] # "name" /\ CliInvoke("cli", "start", n)
    \/ CliDispatch("cli")
    \/ DaemonBoot("daemon")
    \/ DaemonStartAll("daemon")
    \/ \E c \in Callers :
          \/ StartLoad(c) \/ StartVerify(c) \/ StartStale(c) \/ StartPort(c)
          \/ StartSpawn(c) \/ StartSave(c)
          \/ StopLoad(c) \/ StopStale(c) \/ StopChildren(c) \/ StopKillChildren(c)
          \/ StopTerminate(c) \/ StopKill(c) \/ StopRemove(c)

SpecValid == InitValid /\ [][NextValid]_vars

\* A second passes.
ClockTick ==
    /\ logs.on /\ logs.now < MaxClock
    /\ logs' = [logs EXCEPT !.now = @ + 1]
    /\ UNCHANGED <<ptab, listener, pidfile, enabled, denied, pc, stack, loc,
                   sigForeign, envs, heal, bad, unparsable, build, rc, storm, missing>>

\* Commands run one after another while the clock and the log directory are
\* followed; the daemon is not running.
InitLog ==
    /\ InitState
    /\ heal = [n \in Names |-> "off"]
    /\ bad = {}
    /\ unparsable = {}
    /\ build = NoBuild
    /\ logs = [NoLogs EXCEPT !.on = TRUE]
    /\ rc = NoExitCodes
    /\ storm = NoStorm /\ missing = NoMissing

NextLog ==
    \/ ClockTick
    \/ \E p \in Pids : EnvExit(p)
    \/ \E p \in Pids : EnvChild(p)
    \/ \E cmd \in Commands, n \in Names : CliInvoke("cli", cmd, n)
    \/ CliDispatch("cli")
    \/ StartLoad("cli") \/ StartVerify("cli") \/ StartStale("cli")
    \/ StartPort("cli") \/ StartSpawn("cli") \/ StartSave("cli")
    \/ StopLoad("cli") \/ StopStale("cli") \/ StopChildren("cli")
    \/ StopKillChildren("cli") \/ StopTerminate("cli") \/ StopKill("cli")
    \/ StopRemove("cli")

SpecLog == InitLog /\ [][NextLog]_vars

\* A configuration in which the start command of some server cannot be
\* tokenized.
InitCmd ==
    /\ InitState
    /\ heal = [n \in Names |-> "off"]
    /\ bad = {}
    /\ unparsable \in (SUBSET Names) \ {{}}
    /\ build = NoBuild
    /\ logs = NoLogs
    /\ rc = NoExitCodes
    /\ storm = NoStorm /\ missing = NoMissing

SpecCmd == InitCmd /\ [][Next]_vars

\* ------------------------------------------------------------------ claims

\* Caller c is inside start_server for server n (stop_server called from it included).
InStart(c, n) ==
    /\ loc[c].srv = n
    /\ \/ pc[c] \in StartPcs
       \/ pc[c] \in StopPcs /\ Head(stack[c]) = "s_port"

\* A lifecycle operation of caller c on server n is in flight.
InFlight(c, n) == loc[c].srv = n /\ pc[c] \in StartPcs \cup StopPcs

\* Caller c takes the step at position l.
Moves(c, l) == pc[c] = l /\ pc'[c] # l

\* The step of caller c returns from the function it is in.
Returns(c) == pc'[c] = Head(stack[c]) /\ stack'[c] = Tail(stack[c])

\* C1: two start_server calls for one server that overlap never both spawn a
\* process.
C1_ConcurrentStartsSpawnOnce ==
    \A n \in Names : \A c1, c2 \in Callers :
        (c1 # c2 /\ InStart(c1, n) /\ InStart(c2, n))
            => ~(loc[c1].proc # None /\ loc[c2].proc # None)

\* C2: at most one start_server or stop_server call is in flight for a server.
C2_OneOperationPerName ==
    \A n \in Names : \A c1, c2 \in Callers :
        c1 # c2 => ~(InFlight(c1, n) /\ InFlight(c2, n))

\* C3: stop_server for a server without a PID file returns at once; no
\* process exits, no signal is sent, no port and no PID file changes.
C3_StopWithoutRecordIsNoop ==
    [][\A c \in Callers :
          (Moves(c, "t_load") /\ load_pid(loc[c].srv) = None)
              => /\ Returns(c)
                 /\ UNCHANGED <<ptab, listener, pidfile, sigForeign>>]_vars

\* C3 happens: stop_server is about to read the PID file of a server that has
\* none while a process listens on the server's port.
C3_Witness ==
    \E c \in Callers :
        /\ pc[c] = "t_load"
        /\ load_pid(loc[c].srv) = None
        /\ listener[PortOf(loc[c].srv)] # None

\* C4: no signal of the script reaches a process the script did not spawn.
C4_SignalsOnlyOwnProcesses == ~sigForeign

\* C5: start_server on a server whose recorded process runs goes on to verify
\* the port, and when the probe reports the recorded identifier it returns:
\* no process is spawned or signalled, no PID file changes.
C5_StartOnHealthyIsNoop ==
    [][\A c \in Callers :
          /\ (Moves(c, "s_load") /\ is_running(load_pid(loc[c].srv)))
                => /\ pc'[c] = "s_verify"
                   /\ loc'[c].lpid = load_pid(loc[c].srv)
                   /\ UNCHANGED <<ptab, listener, pidfile, sigForeign>>
          /\ (Moves(c, "s_verify")
                /\ is_port_in_use(PortOf(loc[c].srv)) = loc[c].lpid)
                => /\ Returns(c)
                   /\ UNCHANGED <<ptab, listener, pidfile, sigForeign>>]_vars

\* C5 happens: start_server verifies the port of a server whose recorded
\* process runs and owns the port.
C5_Witness ==
    \E c \in Callers :
        /\ pc[c] = "s_verify"
        /\ loc[c].lpid = load_pid(loc[c].srv)
        /\ is_running(loc[c].lpid)
        /\ is_port_in_use(PortOf(loc[c].srv)) = loc[c].lpid

\* The PID file of server n names a running mcp-proxy process of n, and
\* nothing else listens on the port of n.
Restored(n) ==
    /\ is_running(load_pid(n))
    /\ ptab[load_pid(n)].kind = "proxy"
    /\ ptab[load_pid(n)].svc = n
    /\ listener[PortOf(n)] \in {None, load_pid(n)}

\* C6: after the process of an enabled server is killed from outside, the
\* first check of the daemon that begins afterwards, at most one interval
\* later, leaves the server with a running recorded process when it ends
\* (seen while no command is in progress).
C6_DaemonRestoresKilledServer ==
    \A n \in Names :
        (pc["daemon"] = "d_sleep" /\ pc["cli"] = "idle" /\ heal[n] = "due")
            => Restored(n)

\* C7: restart_server always runs stop_server to its end before start_server
\* begins: the dispatch of restart enters stop_server with start_server still to
\* come, and when stop_server returns into start_server the PID file is gone
\* and the process it had named is no longer a running mcp-proxy.
C7_RestartStopsBeforeStart ==
    [][\A c \in Callers :
          /\ (Moves(c, "m_dispatch") /\ loc[c].cmd = "restart"
                /\ loc[c].cfg[loc[c].srv])
                => /\ pc'[c] = "t_load"
                   /\ stack'[c] = <<"s_load", "idle">>
          /\ (pc[c] \in StopPcs /\ pc'[c] = "s_load")
                => /\ pidfile'[loc[c].srv] = None
                   /\ loc[c].spid # None => ptab'[loc[c].spid].kind # "proxy"]_vars

\* C7 happens: the stop_server of a restart has terminated the recorded process
\* and is about to remove the PID file, start_server still to come.
C7_Witness ==
    \E c \in Callers :
        /\ pc[c] = "t_rm"
        /\ stack[c] = <<"s_load", "idle">>
        /\ loc[c].spid # None
        /\ ~Alive(loc[c].spid)

\* C8: when start_server checks a port that a process other than the recorded
\* one listens on, whoever it is, it returns and spawns nothing.
C8_OccupiedPortBlocksStart ==
    [][\A c \in Callers :
          (Moves(c, "s_port")
             /\ listener[PortOf(loc[c].srv)] # None
             /\ listener[PortOf(loc[c].srv)] # load_pid(loc[c].srv))
              => /\ Returns(c)
                 /\ UNCHANGED <<ptab, pidfile>>]_vars

\* C9: the start command on a server whose configuration says enabled: false
\* does nothing, and start_server never runs for a server read as disabled.
C9_StartOnDisabledIsNoop ==
    [][\A c \in Callers :
          /\ (Moves(c, "m_dispatch") /\ loc[c].cmd = "start"
                /\ ~loc[c].cfg[loc[c].srv])
                => /\ pc'[c] = "idle"
                   /\ UNCHANGED <<ptab, listener, pidfile, sigForeign>>
          /\ pc'[c] \in StartPcs => loc'[c].cfg[loc'[c].srv]]_vars

\* C9 happens: the start command is about to be dispatched for a server whose
\* configuration was read with enabled: false.
C9_Witness ==
    \E c \in Callers :
        /\ pc[c] = "m_dispatch"
        /\ loc[c].cmd = "start"
        /\ ~loc[c].cfg[loc[c].srv]

\* C10: a start_server that found the recorded process running without its
\* port confirmed has no new process while that process still runs and is
\* still recorded.
C10_DegradedStopsBeforeSpawn ==
    \A c \in Callers :
        pc[c] = "s_save"
            => ~(/\ is_running(loc[c].lpid)
                 /\ ptab[loc[c].lpid].kind = "proxy"
                 /\ load_pid(loc[c].srv) = loc[c].lpid)

\* The PID file of server n names a process that is not the mcp-proxy of n:
\* the recorded process is gone, whoever carries its identifier now.
RecordedDead(n) ==
    /\ load_pid(n) # None
    /\ ~(/\ Alive(load_pid(n))
         /\ ptab[load_pid(n)].kind = "proxy"
         /\ ptab[load_pid(n)].svc = n)

\* C11: start_server on a server whose recorded process is gone never takes
\* the record for a running service: it goes on to remove the PID file, and
\* the PID file is removed before the port check and the spawn.
C11_StaleRecordCleared ==
    [][\A c \in Callers :
          /\ (Moves(c, "s_load") /\ RecordedDead(loc[c].srv))
                => pc'[c] = "s_stale"
          /\ Moves(c, "s_stale")
                => /\ pidfile'[loc[c].srv] = None
                   /\ pc'[c] = "s_port"]_vars

\* C12: when start_server returns after its Popen, the PID file names the
\* spawned process if that process still runs (a failed write of the file
\* aside), and there is no PID file if the process has exited already.
C12_EarlyExitLeavesNoRecord ==
    [][\A c \in Callers :
          Moves(c, "s_save")
              => IF Alive(loc[c].proc)
                 THEN pidfile'[loc[c].srv] \in {loc[c].proc, pidfile[loc[c].srv]}
                 ELSE pidfile'[loc[c].srv] = None]_vars

\* C13: whenever stop_server returns, there is no PID file for its server:
\* after a graceful exit, a forced kill, a process already gone, a refused
\* signal, and for a stale PID file.
C13_StopRemovesRecord ==
    [][\A c \in Callers :
          (pc[c] \in StopPcs /\ Returns(c))
              => pidfile'[loc[c].srv] = None]_vars

\* C13 happens: the recorded process survived terminate() and stop_server is
\* about to kill it, the PID file still naming it.
C13_Witness ==
    \E c \in Callers :
        /\ pc[c] = "t_pwait"
        /\ Alive(loc[c].spid)
        /\ load_pid(loc[c].srv) = loc[c].spid

\* C14: stop_server deals with the children of the recorded process before
\* the process itself.  With a child alive it signals the children and goes
\* on to the wait and the kill of survivors, never straight to the recorded
\* process; the recorded process is untouched by both steps, and it is
\* terminated only once no child of it is left.  (A shutdown signal may cut
\* stop_server short at any step; such a step is not a step of stop_server.)
C14_ChildrenBeforeRecordedProcess ==
    [][\A c \in Callers :
          LET p == loc[c].spid IN
          /\ (Moves(c, "t_kids") /\ pc'[c] \in StopPcs /\ Alive(p) /\ ptab[p].kid)
                => /\ pc'[c] = "t_kkill"
                   /\ ptab'[p].kind = ptab[p].kind
          /\ (Moves(c, "t_kkill") /\ pc'[c] \in StopPcs /\ Alive(p))
                => /\ pc'[c] = "t_pterm"
                   /\ ptab'[p].kind = ptab[p].kind
                   /\ ~ptab'[p].kid
          /\ pc'[c] = "t_pterm" /\ pc[c] # "t_pterm"
                => /\ pc[c] \in {"t_kids", "t_kkill"}
                   /\ Alive(p) => ~ptab'[p].kid]_vars

\* C14 happens: the children of the recorded process were signalled, one is
\* still alive, and the recorded process has not been signalled yet.
C14_Witness ==
    \E c \in Callers :
        /\ pc[c] = "t_kkill"
        /\ Alive(loc[c].spid)
        /\ ptab[loc[c].spid].kid

\* The step is the tick's check of server n (lines 445-469).
Checks(c, n) ==
    /\ pc[c] = "d_iter"
    /\ loc[c].idx <= Len(Servers)
    /\ Servers[loc[c].idx] = n
    /\ loc'[c].idx = loc[c].idx + 1

\* C15: on a tick, a server that the configuration read by the tick has
\* disabled and that has a PID file gets stop_server called.
C15_TickStopsDisabledWithRecord ==
    [][\A c \in Callers : \A n \in Names :
          (Checks(c, n) /\ ~loc[c].cfg[n] /\ load_pid(n) # None)
              => pc'[c] = "t_load"]_vars

\* C16: a shutdown signal arrives while the daemon is in its loop.  When the
\* daemon exits, every server whose PID file named a running process when
\* the signal arrived has no PID file, and that process is no longer its
\* mcp-proxy.
C16_ShutdownStopsLiveRecords ==
    [][(pc["daemon"] = "sa_iter" /\ pc'["daemon"] = "exited")
          => \A n \in Names :
                LET p == loc["daemon"].had[n] IN
                p # None
                    => /\ pidfile'[n] = None
                       /\ ~(/\ ptab'[p].kind = "proxy"
                            /\ ptab'[p].svc = n)]_vars

\* C17: on a tick, for an enabled server without a PID file whose port has
\* a listener, the daemon only logs: the check goes on to the next server
\* without a call of start_server or stop_server, and nothing changes.
C17_TickLeavesOccupiedPortAlone ==
    [][\A c \in Callers : \A n \in Names :
          (/\ Checks(c, n)
           /\ loc[c].cfg[n]
           /\ load_pid(n) = None
           /\ listener[PortOf(n)] # None)
              => /\ pc'[c] = "d_iter"
                 /\ UNCHANGED <<ptab, listener, pidfile>>]_vars

\* C18: computing the status changes neither a PID file nor a process.
C18_StatusIsPureRead ==
    [][\A c \in Callers :
          pc[c] = "st_iter" => UNCHANGED <<pidfile, ptab, listener>>]_vars

\* The labels the branches of server_status assign.
Classifications ==
    {"Disabled", "Running (Proxy Port OK)", "Running (Proxy Port Conflict)",
     "Running (Proxy Port Not Listening?)", "Running (Proxy Port status unknown)",
     "Stopped (Proxy Port In Use Externally)", "Stopped", "Stopped (Stale Proxy PID?)"}

\* C19: whatever the PID file, the recorded process, the owner of the port
\* and the enabled flag are, server_status labels the server with one of the
\* labels its branches assign, never with the initial "Unknown".
C19_StatusIsClassified ==
    [][\A c \in Callers :
          (pc[c] = "st_iter" /\ loc[c].idx <= Len(Servers))
              => /\ loc'[c].out[Servers[loc[c].idx]] \in Classifications
                 /\ loc'[c].out[Servers[loc[c].idx]] # "Unknown"]_vars

\* C19 happens: the status of a server was computed whose recorded process
\* is alive while a foreign process owns its port.
C19_Witness ==
    \E c \in Callers : \E n \in Names :
        /\ pc[c] = "st_iter"
        /\ loc[c].out[n] = "Running (Proxy Port Conflict)"
        /\ is_running(load_pid(n))
        /\ listener[PortOf(n)] \in Pids \ {load_pid(n)}
        /\ ptab[listener[PortOf(n)]].kind = "foreign"

\* Caller c is inside a call made by a batch: start_all_servers or a tick.
InBatch(c) == stack[c] # <<>> /\ stack[c][Len(stack[c])] \in {"da_iter", "d_iter"}

\* C20: whatever happens inside a start_server or stop_server called by a
\* batch, the batch goes on: the caller is still inside the call or back in
\* the loop over the servers, from where the daemon reaches its next tick.
C20_FailureDoesNotAbortBatch ==
    [][\A c \in Callers :
          (InBatch(c) /\ pc[c] \in StartPcs \cup StopPcs)
              => \/ pc'[c] \in {"da_iter", "d_iter"}
                 \/ /\ stack'[c] # <<>>
                    /\ stack'[c][Len(stack'[c])] \in {"da_iter", "d_iter"}]_vars

\* The step ends the process of caller c.
Exits(c) == pc[c] \notin {"idle", "exited"} /\ pc'[c] \in {"idle", "exited"}

\* C21: a command exits with a non-zero code when its server is not in the
\* configuration and when it is a start of a disabled server, the daemon
\* exits with a non-zero code when it cannot load its configuration, and a
\* command whose start_server or stop_server ran to its end exits with 0.
C21_ExitCodes ==
    [][/\ (Exits("cli") /\ pc["cli"] = "m_dispatch" /\ loc["cli"].srv = "-")
             => rc'.code["cli"] # <<0>>
       /\ (/\ Exits("cli") /\ pc["cli"] = "m_dispatch"
           /\ loc["cli"].srv \in Names
           /\ loc["cli"].cmd = "start"
           /\ ~loc["cli"].cfg[loc["cli"].srv])
             => rc'.code["cli"] # <<0>>
       /\ (pc["daemon"] = "d_boot" /\ pc'["daemon"] = "exited")
             => rc'.code["daemon"] # <<0>>
       /\ (Exits("cli") /\ pc["cli"] \in StartPcs \cup StopPcs)
             => rc'.code["cli"] = <<0>>]_vars

\* C22: a start_server that ends at the tokenization of a start command that
\* cannot be split, or at a Popen that raises, returns to its caller having
\* created no process and changed no PID file, of its server or another.
C22_FailedStartLeavesNothing ==
    [][\A c \in Callers :
          /\ (Moves(c, "s_port") /\ loc[c].srv \in unparsable)
                => /\ pc'[c] \notin {"s_spawn", "s_save"}
                   /\ UNCHANGED <<ptab, pidfile, listener>>
          /\ (Moves(c, "s_spawn") /\ pc'[c] # "s_save")
                => UNCHANGED <<ptab, pidfile, listener>>]_vars

\* C22 happens: start_server is about to tokenize a start command that
\* cannot be split, its port being free, while the other server runs.
C22_Witness ==
    \E c \in Callers : \E n \in Names :
        /\ pc[c] = "s_port"
        /\ loc[c].srv \in unparsable
        /\ is_port_in_use(PortOf(loc[c].srv)) = None
        /\ n # loc[c].srv
        /\ is_running(load_pid(n))
        /\ ptab[load_pid(n)] = Proxy(n)

\* C23: for a start command that can be split, the invocation is "mcp-proxy",
\* its --sse-host, --sse-port and --allow-origin flags with their values,
\* then "-e", key, value for each entry of the env mapping in order, then the
\* parts of the start command in order and nothing else; process_env is
\* os.environ, and os.environ is not changed.
C23_InvocationLayout ==
    [][(build.st = "in" /\ build'.st = "built")
          => LET L == build'.list
                 e == build.env
                 parts == shlex_split(build.cmd).parts
                 base == 7 + 3 * Len(e) IN
             /\ Len(L) = base + Len(parts)
             /\ SubSeq(L, 1, 7) = <<"mcp-proxy", "--sse-host", build.host,
                                    "--sse-port", Str(build.port),
                                    "--allow-origin", build.origin>>
             /\ \A i \in 1..Len(e) :
                   /\ L[7 + 3 * (i - 1) + 1] = "-e"
                   /\ L[7 + 3 * (i - 1) + 2] = e[i][1]
                   /\ L[7 + 3 * (i - 1) + 3] = e[i][2]
             /\ \A j \in 1..Len(parts) : L[base + j] = parts[j]
             /\ build'.process_env = build.environ
             /\ build'.environ = build.environ]_vars

\* C23 happens: an invocation was built from a mapping of two entries, one
\* of them a variable os.environ holds already, and a command of two parts.
C23_Witness ==
    /\ build.st = "built"
    /\ Len(build.env) = 2
    /\ \E i \in 1..2 : build.env[i][1] = "K"
    /\ <<"K", "old">> \in build.environ
    /\ Len(shlex_split(build.cmd).parts) = 2

\* C24: a step of start_server or stop_server for one server, a failed write
\* of its PID file included, leaves the PID file and the mcp-proxy process
\* of every other server as they are.
C24_OtherNamesUntouched ==
    [][\A c \in Callers :
          (pc[c] \in StartPcs \cup StopPcs /\ pc'[c] # pc[c])
              => \A m \in Names \ {loc[c].srv} :
                    /\ pidfile'[m] = pidfile[m]
                    /\ \A p \in Pids :
                          (ptab[p].kind = "proxy" /\ ptab[p].svc = m)
                              => ptab'[p] = ptab[p]]_vars

\* C25: on a tick, for an enabled server whose recorded process runs while
\* its port has no listener or a listener other than that process, the
\* daemon calls stop_server and has start_server as the next call of the
\* same tick, before it goes on to the next server.
C25_DegradedStopThenStart ==
    [][\A c \in Callers : \A n \in Names :
          (/\ Checks(c, n)
           /\ loc[c].cfg[n]
           /\ is_running(load_pid(n))
           /\ listener[PortOf(n)] # load_pid(n))
              => /\ pc'[c] = "t_load"
                 /\ loc'[c].srv = n
                 /\ stack'[c] = <<"s_load", "d_iter">>]_vars

\* C25 happens: the tick's stop_server of a server begins, start_server due
\* after it, the recorded process running and a foreign process on the port.
C25_Witness ==
    \E c \in Callers :
        /\ pc[c] = "t_load"
        /\ stack[c] = <<"s_load", "d_iter">>
        /\ is_running(load_pid(loc[c].srv))
        /\ listener[PortOf(loc[c].srv)] \in Pids \ {load_pid(loc[c].srv)}

\* C26: on a tick, for an enabled server whose port is free and whose PID
\* file is absent or does not name its running mcp-proxy, the daemon calls
\* start_server in the same tick; where a PID file exists, the call before
\* it removes the file (remove_pid_file, or stop_server when the recorded
\* number is carried by another process).
C26_TickStartsMissingServer ==
    [][\A c \in Callers :
          /\ \A n \in Names :
                (/\ Checks(c, n)
                 /\ loc[c].cfg[n]
                 /\ load_pid(n) = None \/ RecordedDead(n)
                 /\ listener[PortOf(n)] = None)
                    => /\ loc'[c].srv = n
                       /\ IF load_pid(n) = None
                          THEN pc'[c] = "s_load" /\ stack'[c] = <<"d_iter">>
                          ELSE /\ pc'[c] \in {"d_rm", "t_load"}
                               /\ stack'[c] = <<"s_load", "d_iter">>
          /\ (pc[c] = "d_rm" /\ pc'[c] \notin {"d_rm", "sa_iter"})
                => /\ pidfile'[loc[c].srv] = None
                   /\ pc'[c] = "s_load"]_vars

\* C26 happens: the tick found the PID file of a server naming a process
\* that is gone, the port free, and is about to remove the file and start.
C26_Witness ==
    \E c \in Callers :
        /\ pc[c] = "d_rm"
        /\ stack[c] = <<"s_load", "d_iter">>
        /\ load_pid(loc[c].srv) # None
        /\ ~Alive(load_pid(loc[c].srv))
        /\ listener[PortOf(loc[c].srv)] = None

\* C27: stop_server kills only what it has signalled gracefully and waited
\* for.  The kill of the recorded process is reached only from its
\* terminate(), the process having survived it, and the kill of children only
\* from their terminate(); once the wait has run out the process is killed
\* and stop_server goes on to its end; no other step of stop_server ends the
\* recorded process.
C27_KillOnlyAfterTerminate ==
    [][\A c \in Callers :
          LET p == loc[c].spid IN
          /\ (pc'[c] = "t_pwait" /\ pc[c] # "t_pwait")
                => /\ pc[c] = "t_pterm"
                   /\ Alive(p) /\ ptab'[p] = ptab[p]
          /\ (pc'[c] = "t_kkill" /\ pc[c] # "t_kkill") => pc[c] = "t_kids"
          /\ (Moves(c, "t_pwait") /\ pc'[c] \in StopPcs)
                => /\ pc'[c] = "t_rm"
                   /\ ptab'[p].kind = "dead"
          /\ (pc[c] \in StopPcs /\ pc'[c] # pc[c] /\ Alive(p) /\ ptab'[p].kind = "dead")
                => pc[c] \in {"t_pterm", "t_pwait"}]_vars

\* C27 happens: the mcp-proxy of a server was sent terminate() and is still
\* running when the wait for it runs out.
C27_Witness ==
    \E c \in Callers :
        /\ pc[c] = "t_pwait"
        /\ Alive(loc[c].spid)
        /\ ptab[loc[c].spid].kind = "proxy"
        /\ ptab[loc[c].spid].svc = loc[c].srv

\* Server n has a running mcp-proxy that no PID file names and that listens
\* on the port of n: start_server spawned it and the write of the PID file
\* failed.
Unrecorded(n) ==
    /\ load_pid(n) = None
    /\ \E p \in Pids :
          /\ ptab[p].kind = "proxy" /\ ptab[p].svc = n
          /\ listener[PortOf(n)] = p

\* C28: on a tick, for an enabled server whose mcp-proxy runs unrecorded, the
\* daemon only logs: no start_server and no stop_server is called, and no
\* process or PID file changes.
C28_TickLeavesUnrecordedProcess ==
    [][\A c \in Callers : \A n \in Names :
          (Checks(c, n) /\ loc[c].cfg[n] /\ Unrecorded(n))
              => /\ pc'[c] = "d_iter"
                 /\ UNCHANGED <<ptab, pidfile>>]_vars

\* C29: a start_server that gets as far as its log file opens a file no
\* earlier start of the server has written: the name it opens does not
\* exist in the log directory yet.
C29_FreshLogPerAttempt ==
    [][\A c \in Callers :
          (pc[c] = "s_port" /\ pc'[c] = "s_spawn")
              => LogName(loc[c].srv, logs.now) \notin logs.files]_vars

\* C30: every start_server and stop_server that has begun comes to its end,
\* and the shutdown of the daemon, once stop_all_servers has begun, comes to
\* the exit, whether or not a process exits when it is signalled.
C30_OperationsTerminate ==
    /\ \A c \in Callers :
          (pc[c] \in StartPcs \cup StopPcs) ~> (pc[c] \notin StartPcs \cup StopPcs)
    /\ (pc["daemon"] = "sa_iter") ~> (pc["daemon"] = "exited")

\* C30 happens: during the shutdown of the daemon the mcp-proxy of a server
\* has not exited on terminate() and its wait runs out.
C30_Witness ==
    /\ pc["daemon"] = "t_pwait"
    /\ stack["daemon"] = <<"sa_iter">>
    /\ Alive(loc["daemon"].spid)

\* C31: between operations that did not overlap, every running mcp-proxy
\* process the script spawned for a server is the process named by the PID
\* file of that server (so there is at most one per server, and none without
\* a PID file).
C31_SpawnedProcessIsRecorded ==
    BetweenOperations
        => \A p \in Pids :
              (Alive(p) /\ ptab[p].kind = "proxy") => load_pid(ptab[p].svc) = p

\* C32: when stop_server removes the PID file at its end, the file does not
\* name a running mcp-proxy of the server other than the process stop_server
\* read from it (such a record is one that a start_server wrote meanwhile
\* for the process it spawned).
C32_StopKeepsNewerRecord ==
    [][\A c \in Callers :
          (Moves(c, "t_rm") /\ Returns(c))
              => LET p == load_pid(loc[c].srv) IN
                 ~(/\ p # loc[c].spid
                   /\ is_running(p)
                   /\ ptab[p].kind = "proxy"
                   /\ ptab[p].svc = loc[c].srv)]_vars

\* C33: on a tick, for an enabled server whose recorded process runs and is
\* the listener on the server's port, the check goes on to the next server
\* without a call of stop_server or start_server, and no process, port or
\* PID file changes.
C33_TickLeavesHealthyServerAlone ==
    [][\A c \in Callers : \A n \in Names :
          (/\ Checks(c, n)
           /\ loc[c].cfg[n]
           /\ is_running(load_pid(n))
           /\ listener[PortOf(n)] = load_pid(n))
              => /\ pc'[c] = "d_iter"
                 /\ UNCHANGED <<ptab, listener, pidfile>>]_vars

\* C34: while the port of a server is taken by a foreign or unidentifiable
\* listener, over all ticks and start_server calls the script begins at
\* most one stop of the server's recorded process and spawns no process for
\* the server.
C34_NoRestartStorm ==
    \A n \in Names :
        Conflict(n) => storm.stops[n] <= 1 /\ storm.spawns[n] = 0

\* C35: a tick whose load_config fails calls neither start_server nor
\* stop_server and changes no process, port or PID file; the daemon goes
\* back to its sleep, and it comes to load the configuration again.
C35_FailedReloadSkipsTick ==
    /\ [][LET c == "daemon" IN
          /\ (Moves(c, "d_load") /\ pc'[c] # "d_iter")
                => /\ pc'[c] = "d_skip"
                   /\ stack'[c] = <<>>
                   /\ UNCHANGED <<ptab, listener, pidfile, sigForeign>>
          /\ Moves(c, "d_skip")
                => /\ pc'[c] = "d_sleep"
                   /\ stack'[c] = <<>>
                   /\ UNCHANGED <<ptab, listener, pidfile, sigForeign>>]_vars
    /\ (pc["daemon"] = "d_skip") ~> (pc["daemon"] = "d_load")

\* C35 happens: load_config failed on a tick while the PID file of an
\* enabled server names a process that is gone, which a tick would restart.
C35_Witness ==
    /\ pc["daemon"] = "d_skip"
    /\ \E n \in Names : enabled[n] /\ RecordedDead(n)

\* C36: start_server for an entry that lacks its name, its internal_port or
\* its start_command returns with its first step: no PID file is read or
\* changed, no port is probed, no process is spawned or signalled.
C36_IncompleteEntryReturnsAtOnce ==
    [][\A c \in Callers :
          (Moves(c, "s_load") /\ missing[loc[c].srv] # "-")
              => /\ Returns(c)
                 /\ UNCHANGED <<ptab, listener, pidfile, sigForeign>>]_vars

\* C36 happens: start_server begins for an entry without a start_command or
\* an internal_port whose PID file names a running mcp-proxy that does not
\* listen, which start_server would stop for a complete entry.
C36_Witness ==
    \E c \in Callers :
        /\ pc[c] = "s_load"
        /\ missing[loc[c].srv] # "-"
        /\ is_running(load_pid(loc[c].srv))
        /\ listener[PortOf(loc[c].srv)] = None

\* C37: the restart command on a server read as disabled calls stop_server
\* and nothing after it, and the stop command calls stop_server whether the
\* server is enabled or not; when that stop_server returns to main there is
\* no PID file for the server and the process it had named is no longer a
\* running mcp-proxy.
C37_RestartOfDisabledOnlyStops ==
    [][\A c \in Callers :
          /\ (Moves(c, "m_dispatch")
                /\ \/ loc[c].cmd = "stop"
                   \/ loc[c].cmd = "restart" /\ ~loc[c].cfg[loc[c].srv])
                => /\ pc'[c] = "t_load"
                   /\ stack'[c] = <<"idle">>
                   /\ UNCHANGED <<ptab, listener, pidfile, sigForeign>>
          /\ (pc[c] \in StopPcs /\ pc'[c] = "idle")
                => /\ pidfile'[loc[c].srv] = None
                   /\ loc[c].spid # None => ptab'[loc[c].spid].kind # "proxy"]_vars

\* C37 happens: the restart command is about to be dispatched for a server
\* read as disabled whose PID file names a running mcp-proxy.
C37_Witness ==
    \E c \in Callers :
        /\ pc[c] = "m_dispatch"
        /\ loc[c].cmd = "restart"
        /\ ~loc[c].cfg[loc[c].srv]
        /\ is_running(load_pid(loc[c].srv))
        /\ ptab[load_pid(loc[c].srv)].kind = "proxy"

====
